---- MODULE Spec2Model ----
(***************************************************************************)
(* Model of app.py: the validated finance-transaction data model, the      *)
(* JSON-file repository (load_data / save_data and the SAVE TRANSACTION    *)
(* handler) and the dashboard's aggregation pipeline.                      *)
(*                                                                         *)
(* Amounts are Python floats in the source.  Here an amount is the integer *)
(* n that stands for the float n / Scale.  Scale is a power of two, so     *)
(* every modelled amount is exactly representable as a double and float    *)
(* addition, subtraction and comparison on these values are exact.         *)
(* A datetime is the record of its year and month; its ISO text in the     *)
(* file is the number YYYYMM.  The text of the file is a sequence of JSON  *)
(* tokens, each with the number of bytes json.dump(indent=2) writes for    *)
(* it, so that a truncated file is a prefix that no longer parses and a    *)
(* write over a longer text leaves the bytes beyond its own length.        *)
(***************************************************************************)
EXTENDS Integers, Sequences, FiniteSets, TLC

VARIABLES
    input,      \* SpecModel: the form values handed to the SAVE handler
    created,    \* SpecModel: what constructing the transaction gave
    file,       \* the content of DATA_FILE, a sequence of JSON tokens, or absent
    pc,         \* per process: where it stands in the SAVE handler
    txn,        \* per process: new_transaction (line 136)
    all_data,   \* per process: all_data (lines 144-145)
    outcome,    \* per process: how its last SAVE click ended
    next_id,    \* source of fresh transaction ids (uuid4)
    file0,      \* history: the file as it was before the first click
    saved,      \* history: the transactions whose save_data returned, in order
    overlap,    \* history: two load..save windows have intersected
    failed,     \* history: a write has failed partway
    touched,    \* history: the processes that have clicked SAVE
    clicked,    \* history: the last click, who and with which form values
    sel,        \* SpecDash: the filter widgets' values
    view        \* SpecDash: what the dashboard computed on its last run

vars == <<input, created, file, pc, txn, all_data, outcome, next_id,
          file0, saved, overlap, failed, touched, clicked, sel, view>>

-----------------------------------------------------------------------------
(* Bounds of the model *)

MaxFrac == 2
MaxHalves == 3
MaxRows == 2
MaxClicks == 3
MaxTxns == 2

-----------------------------------------------------------------------------
(* Numbers *)

Scale == 2^7

TolDen == 100

Abs(x) == IF x < 0 THEN -x ELSE x

RECURSIVE SumAmounts(_)
SumAmounts(s) == IF s = <<>> THEN 0 ELSE Head(s).amount + SumAmounts(Tail(s))

\* f"{x:,.0f}": the float n / Scale rounded to a whole number, ties to even.
Format0f(n) ==
    LET q == n \div Scale
        r == n % Scale
    IN  IF 2 * r < Scale THEN q
        ELSE IF 2 * r > Scale THEN q + 1
        ELSE IF q % 2 = 0 THEN q ELSE q + 1

-----------------------------------------------------------------------------
(* Pydantic models *)

InvestmentTypes == {"SIP", "Hedge", "Saving", "Emergency Fund"}

IncomeTypes == {"salary", "bonus", "teaching", "others"}

\* class Investment: the field constraints.
Investment(inv) == inv.type \in InvestmentTypes /\ inv.amount >= 0

\* class IncomeSource: the field constraints.
IncomeSource(src) == src.type \in IncomeTypes /\ src.amount > 0

\* class Allocations: the field constraints.
Allocations(a) == a.life_expenses >= 0 /\ a.self_supply >= 0

total_allocated_without_self_supply(v) == v.life_expenses + SumAmounts(v.investments)

\* total_allocated of check_allocations_sum.
total_allocated(v) == v.life_expenses + v.self_supply + SumAmounts(v.investments)

check_allocations_sum_skipped(income_amount, v) == TRUE

\* The validator's test: abs(income_amount - total_allocated) < 0.01.
check_allocations_sum(income_amount, v) ==
    TolDen * Abs(income_amount - total_allocated(v)) < Scale

\* The details of one form row, by its type (lines 129-133).
details_dict(inv_state) ==
    IF inv_state.type = "SIP"
    THEN [fund_name |-> inv_state.fund_name, platform |-> inv_state.platform]
    ELSE IF inv_state.type = "Hedge"
    THEN [asset_type |-> inv_state.asset_type, description |-> inv_state.description]
    ELSE [destination_account |-> inv_state.destination_account]

\* investment_list of the handler: the rows with a positive amount (lines 126-134).
RECURSIVE investment_list(_)
investment_list(rows) ==
    IF rows = <<>> THEN <<>>
    ELSE IF Head(rows).amount > 0
         THEN <<[type |-> Head(rows).type, amount |-> Head(rows).amount,
                 details |-> details_dict(Head(rows))]>>
              \o investment_list(Tail(rows))
         ELSE investment_list(Tail(rows))

\* Lines 126-142: the rows become Investments, then IncomeSource, Allocations
\* and FinanceTransaction are constructed; the first failing one raises.
FinanceTransaction(state, id, now) ==
    LET invs == investment_list(state.investments)
        src == [type |-> state.income_type, amount |-> state.income_amount]
        alloc == [life_expenses |-> state.life_expenses,
                  self_supply |-> state.self_supply,
                  investments |-> invs]
    IN  IF \/ \E i \in 1..Len(invs) : ~Investment(invs[i])
           \/ ~IncomeSource(src)
           \/ ~Allocations(alloc)
        THEN [status |-> "InvalidInput"]
        ELSE IF ~check_allocations_sum(src.amount, alloc)
        THEN [status |-> "AllocationMismatch",
              total |-> Format0f(total_allocated(alloc)),
              expected |-> Format0f(src.amount)]
        ELSE [status |-> "ok",
              txn |-> [transaction_id |-> id, timestamp |-> now,
                       income_source |-> src, allocations |-> alloc]]

-----------------------------------------------------------------------------
(* SpecModel: constructing a transaction from form values *)

HalfUnit == Scale \div 2

AmountVals == (0..MaxFrac) \cup {HalfUnit * k : k \in 1..MaxHalves}

SmallVals == 0..MaxFrac

SipRow(a) == [type |-> "SIP", amount |-> a, fund_name |-> "VFM", platform |-> "app"]

RowSeqs(rows, n) == UNION {[1..k -> rows] : k \in 0..n}

ModelInputs ==
    [income_type : {"salary"}, income_amount : AmountVals,
     life_expenses : AmountVals, self_supply : SmallVals,
     investments : RowSeqs({SipRow(a) : a \in AmountVals}, MaxRows)]

NotRun == [status |-> "NotRun"]

Now0 == [year |-> 2024, month |-> 1]

Procs == {1, 2}

Idle == [p \in Procs |-> "idle"]

InitRest ==
    /\ file = [exists |-> FALSE, text |-> <<>>]
    /\ pc = Idle
    /\ txn = [p \in Procs |-> NotRun]
    /\ all_data = [p \in Procs |-> <<>>]
    /\ outcome = [p \in Procs |-> "none"]
    /\ next_id = 1
    /\ file0 = file
    /\ saved = <<>>
    /\ overlap = FALSE
    /\ failed = FALSE
    /\ touched = {}
    /\ clicked = NotRun
    /\ sel = NotRun
    /\ view = NotRun

InitModel ==
    /\ input \in ModelInputs
    /\ created = NotRun
    /\ InitRest

createTransaction ==
    /\ created = NotRun
    /\ created' = FinanceTransaction(input, 1, Now0)
    /\ UNCHANGED <<input, file, pc, txn, all_data, outcome, next_id,
                   file0, saved, overlap, failed, touched, clicked, sel, view>>

NextModel == createTransaction

SpecModel == InitModel /\ [][NextModel]_vars

\* What the form's allocations add up to, row by row.
RECURSIVE RowTotal(_)
RowTotal(rows) == IF rows = <<>> THEN 0 ELSE Head(rows).amount + RowTotal(Tail(rows))

EnteredTotal(state) == state.life_expenses + state.self_supply + RowTotal(state.investments)

WithinTolerance(state) == TolDen * Abs(EnteredTotal(state) - state.income_amount) < Scale

\* C1: with an income amount > 0 and every allocation amount >= 0, construction
\* succeeds exactly when |life_expenses + self_supply + sum of investment amounts
\* - income amount| < 0.01 and fails with AllocationMismatch otherwise; a
\* constructed transaction satisfies the allocation-sum invariant.
C1_SucceedsIffSumMatches ==
    (created # NotRun /\ input.income_amount > 0) =>
        /\ created.status = "ok" <=> WithinTolerance(input)
        /\ created.status # "ok" => created.status = "AllocationMismatch"
        /\ created.status = "ok" =>
              LET a == created.txn.allocations
              IN  TolDen * Abs(a.life_expenses + a.self_supply + SumAmounts(a.investments)
                               - created.txn.income_source.amount) < Scale

\* A transaction was constructed although the sum is off by 1/128, and it has an
\* investment and a self-supply share.
C1_Witness ==
    /\ created # NotRun
    /\ created.status = "ok"
    /\ Abs(EnteredTotal(input) - input.income_amount) = 1
    /\ input.self_supply > 0
    /\ input.investments # <<>>

\* C6: a failure with AllocationMismatch reports the exact computed total and
\* the expected income amount.
C6_ReportsExactTotal ==
    (created # NotRun /\ created.status = "AllocationMismatch") =>
        /\ created.total * Scale = EnteredTotal(input)
        /\ created.expected * Scale = input.income_amount

-----------------------------------------------------------------------------
(* The JSON file *)

\* The digits of repr(n / Scale): the whole part, the point, the fraction.
RECURSIVE int_digits(_)
int_digits(n) == IF n < 10 THEN 1 ELSE 1 + int_digits(n \div 10)

RECURSIVE frac_digits(_, _)
frac_digits(r, unit) ==
    IF r = 0 THEN 0 ELSE 1 + frac_digits((2 * r) % unit, unit)

repr_len(n) ==
    int_digits(n \div Scale) + 1
    + (IF n % Scale = 0 THEN 1 ELSE frac_digits(n % Scale, Scale))

RECURSIVE SumWidths(_)
SumWidths(s) == IF s = <<>> THEN 0 ELSE Head(s) + SumWidths(Tail(s))

RECURSIVE details_width(_)
details_width(d) ==
    IF DOMAIN d = {} THEN 0
    ELSE LET k == CHOOSE k \in DOMAIN d : TRUE
         IN  20 + Len(k) + Len(d[k])
             + details_width([j \in DOMAIN d \ {k} |-> d[j]])

\* The bytes of one investment inside "investments", indent=2.
investment_width(inv) ==
    IF DOMAIN inv.details = {}
    THEN 87 + Len(inv.type) + repr_len(inv.amount)
    ELSE 97 + Len(inv.type) + repr_len(inv.amount) + details_width(inv.details)

\* The bytes of one object of the top-level list, indent=2: a transaction with
\* its uuid4 text (36 characters) and its ISO timestamp (26 characters), or
\* the object {"junk": 1}.
object_width(x) ==
    IF "transaction_id" \notin DOMAIN x THEN 21
    ELSE LET invs == x.allocations.investments
         IN  280 + Len(x.income_source.type)
             + repr_len(x.income_source.amount)
             + repr_len(x.allocations.life_expenses)
             + repr_len(x.allocations.self_supply)
             + (IF invs = <<>> THEN 0
                ELSE 6 + Len(invs)
                     + SumWidths([j \in 1..Len(invs) |-> 1 + investment_width(invs[j])]))

\* The tokens of the text: the brackets of the top-level list, one token per
\* JSON object, and what is left of a token that was overwritten in part.
LB == [tok |-> "[", w |-> 1]

RB(n) == [tok |-> "]", w |-> IF n = 0 THEN 1 ELSE 2]

V(x, i) == [tok |-> "value", val |-> x,
            w |-> (IF i = 1 THEN 1 ELSE 2) + object_width(x)]

Top(x) == [tok |-> "value", val |-> x, w |-> 11]

Fragment(n) == [tok |-> "fragment", w |-> n]

PyList(items) == [kind |-> "list", items |-> items]

\* datetime.isoformat as model_dump(mode='json') applies it: the text "YYYYMM".
isoformat_year_only(ts) == ts.year * 100

isoformat(ts) == ts.year * 100 + ts.month

\* pd.to_datetime on that text.
to_datetime(text) == [year |-> text \div 100, month |-> text % 100]

\* new_transaction.model_dump(mode='json').
model_dump(t) == [t EXCEPT !.timestamp = isoformat(@)]

\* json.dump(data, f, indent=2, default=str): the text written for a list.
json_dump(data) ==
    <<LB>> \o [i \in 1..Len(data) |-> V(data[i], i)] \o <<RB(Len(data))>>

\* json.load(f): a list, another JSON value, or JSONDecodeError.
json_load(text) ==
    IF Len(text) = 1 /\ text[1].tok = "value"
    THEN [kind |-> "dict", val |-> text[1].val]
    ELSE IF /\ Len(text) >= 2
            /\ text[1].tok = "["
            /\ text[Len(text)].tok = "]"
            /\ \A i \in 2..(Len(text) - 1) : text[i].tok = "value"
    THEN PyList([i \in 1..(Len(text) - 2) |-> text[i + 1].val])
    ELSE [kind |-> "JSONDecodeError"]

\* load_data(filepath).
load_data(f) ==
    IF ~f.exists THEN PyList(<<>>)
    ELSE LET v == json_load(f.text)
         IN  IF v.kind = "JSONDecodeError" THEN PyList(<<>>) ELSE v

TextWidth(text) == SumWidths([i \in 1..Len(text) |-> text[i].w])

\* The text beyond its first `skip` bytes.
RECURSIVE Beyond(_, _)
Beyond(text, skip) ==
    IF text = <<>> \/ skip = 0 THEN text
    ELSE IF Head(text).w <= skip THEN Beyond(Tail(text), skip - Head(text).w)
    ELSE <<Fragment(Head(text).w - skip)>> \o Tail(text)

\* What a write of `new` at offset 0 leaves in a file holding `old`: the
\* bytes of `old` beyond the length of `new` stay.
Overlay(new, old) == new \o Beyond(old, TextWidth(new))

append_replacing(data, record) == <<record>>

\* all_data.append(record).
append(data, record) == Append(data, record)

-----------------------------------------------------------------------------
(* SpecRepo: the SAVE TRANSACTION handler, run by two processes on one file *)

Clock == {Now0, [year |-> 2025, month |-> 2]}

RepoInputs ==
    [income_type : {"salary"}, income_amount : {0, 2 * HalfUnit},
     life_expenses : {HalfUnit, 2 * HalfUnit}, self_supply : {0},
     investments : {<<SipRow(HalfUnit)>>}]

OldTxn ==
    [transaction_id |-> 0, timestamp |-> isoformat(Now0),
     income_source |-> [type |-> "bonus", amount |-> HalfUnit],
     allocations |-> [life_expenses |-> HalfUnit, self_supply |-> 0,
                      investments |-> <<>>]]

RepoFiles ==
    {[exists |-> FALSE, text |-> <<>>],
     [exists |-> TRUE, text |-> json_dump(<<>>)],
     [exists |-> TRUE, text |-> json_dump(<<OldTxn>>)],
     [exists |-> TRUE, text |-> SubSeq(json_dump(<<OldTxn>>), 1, 2)],
     [exists |-> TRUE, text |-> <<Top([junk |-> 1])>>]}

InitRepo ==
    /\ input = NotRun
    /\ created = NotRun
    /\ file \in RepoFiles
    /\ pc = Idle
    /\ txn = [p \in Procs |-> NotRun]
    /\ all_data = [p \in Procs |-> <<>>]
    /\ outcome = [p \in Procs |-> "none"]
    /\ next_id = 1
    /\ file0 = file
    /\ saved = <<>>
    /\ overlap = FALSE
    /\ failed = FALSE
    /\ touched = {}
    /\ clicked = NotRun
    /\ sel = NotRun
    /\ view = NotRun

\* Lines 124-142 and 153-154: the click, up to the constructed transaction or the
\* validation error shown.
Click(p) ==
    /\ pc[p] = "idle"
    /\ next_id <= MaxClicks
    /\ \E state \in RepoInputs, now \in Clock :
         LET r == FinanceTransaction(state, next_id, now)
         IN  /\ clicked' = [proc |-> p, state |-> state]
             /\ IF r.status = "ok"
                THEN /\ txn' = [txn EXCEPT ![p] = r.txn]
                     /\ pc' = [pc EXCEPT ![p] = "constructed"]
                     /\ outcome' = [outcome EXCEPT ![p] = "none"]
                ELSE /\ outcome' = [outcome EXCEPT ![p] = r.status]
                     /\ UNCHANGED <<txn, pc>>
    /\ next_id' = next_id + 1
    /\ touched' = touched \cup {p}
    /\ UNCHANGED <<input, created, file, all_data, file0, saved, overlap, failed,
                   sel, view>>

\* Lines 144-145: load_data, then append; appending to a value that is no list
\* raises, which line 155 catches.
Load(p) ==
    /\ pc[p] = "constructed"
    /\ LET data == load_data(file)
       IN  IF data.kind = "list"
           THEN /\ all_data' = [all_data EXCEPT ![p] = append(data.items, model_dump(txn[p]))]
                /\ pc' = [pc EXCEPT ![p] = "loaded"]
                /\ UNCHANGED outcome
           ELSE /\ outcome' = [outcome EXCEPT ![p] = "Error"]
                /\ pc' = [pc EXCEPT ![p] = "idle"]
                /\ UNCHANGED all_data
    /\ overlap' = (overlap \/ \E q \in Procs \ {p} : pc[q] \in {"loaded", "opened"})
    /\ UNCHANGED <<input, created, file, txn, next_id, file0, saved, failed,
                   touched, clicked, sel, view>>

\* Line 55: open(filepath, 'w') truncates the file.
Open(p) ==
    /\ pc[p] = "loaded"
    /\ file' = [exists |-> TRUE, text |-> <<>>]
    /\ pc' = [pc EXCEPT ![p] = "opened"]
    /\ UNCHANGED <<input, created, txn, all_data, outcome, next_id, file0, saved,
                   overlap, failed, touched, clicked, sel, view>>

\* Line 56 and lines 149-151: json.dump writes the whole text, the file is closed.
Write(p) ==
    /\ pc[p] = "opened"
    /\ file' = [exists |-> TRUE, text |-> Overlay(json_dump(all_data[p]), file.text)]
    /\ pc' = [pc EXCEPT ![p] = "idle"]
    /\ outcome' = [outcome EXCEPT ![p] = "saved"]
    /\ saved' = Append(saved, txn[p])
    /\ UNCHANGED <<input, created, txn, all_data, next_id, file0, overlap, failed,
                   touched, clicked, sel, view>>

\* The first `b` bytes of a text: the whole tokens that fit, then what was
\* written of the token the write stopped in.
RECURSIVE Cut(_, _)
Cut(text, b) ==
    IF text = <<>> \/ b = 0 THEN <<>>
    ELSE IF Head(text).w <= b THEN <<Head(text)>> \o Cut(Tail(text), b - Head(text).w)
    ELSE <<Fragment(b)>>

\* Line 56 raising partway (an OSError of the write) in a process that is
\* alone on the file: the write stops after any number of bytes, the file
\* line 55 emptied holds those bytes, and line 155 reports the error.
WriteFail(p) ==
    /\ pc[p] = "opened"
    /\ file.text = <<>>
    /\ \E b \in 0..(TextWidth(json_dump(all_data[p])) - 1) :
         file' = [exists |-> TRUE, text |-> Cut(json_dump(all_data[p]), b)]
    /\ pc' = [pc EXCEPT ![p] = "idle"]
    /\ outcome' = [outcome EXCEPT ![p] = "Error"]
    /\ failed' = TRUE
    /\ UNCHANGED <<input, created, txn, all_data, next_id, file0, saved, overlap,
                   touched, clicked, sel, view>>

NextRepo == \E p \in Procs : Click(p) \/ Load(p) \/ Open(p) \/ Write(p)

SpecRepo == InitRepo /\ [][NextRepo]_vars

NextFault == Click(1) \/ Load(1) \/ Open(1) \/ Write(1) \/ WriteFail(1)

\* One process of the handler on a file system whose writes can fail partway.
SpecFault == InitRepo /\ [][NextFault]_vars

\* A transaction as the data model of the specification wants it.
ValidTransaction(t) ==
    /\ t.income_source.amount > 0
    /\ t.allocations.life_expenses >= 0
    /\ t.allocations.self_supply >= 0
    /\ \A i \in 1..Len(t.allocations.investments) :
         t.allocations.investments[i].amount >= 0
    /\ TolDen * Abs(t.allocations.life_expenses + t.allocations.self_supply
                    + SumAmounts(t.allocations.investments)
                    - t.income_source.amount) < Scale

ValidEntry(state) == state.income_amount > 0 /\ WithinTolerance(state)

\* C2: a save attempt whose inputs fail validation leaves the store as it was and
\* ends the attempt there, and every change of the store is made by a process
\* that holds a fully constructed, valid transaction.
C2_RejectedSaveLeavesStore ==
    [][/\ (next_id' # next_id /\ ~ValidEntry(clicked'.state)) =>
            /\ file' = file
            /\ pc'[clicked'.proc] = "idle"
            /\ outcome'[clicked'.proc] \in {"InvalidInput", "AllocationMismatch"}
       /\ file' # file =>
            \E p \in Procs : /\ pc[p] \in {"loaded", "opened"}
                             /\ txn[p] # NotRun
                             /\ ValidTransaction(txn[p])]_vars

\* A click was rejected with AllocationMismatch while the store already held
\* saved records, and the store still holds exactly them.
C2_Witness ==
    /\ clicked # NotRun
    /\ ~ValidEntry(clicked.state)
    /\ outcome[clicked.proc] = "AllocationMismatch"
    /\ \A p \in Procs : pc[p] = "idle"
    /\ Len(saved) = 1
    /\ load_data(file0).kind = "list"
    /\ Len(load_data(file).items) = Len(load_data(file0).items) + 1

Quiet == \A p \in Procs : pc[p] # "opened"

\* A loaded record, with its timestamp read back as a datetime.
ReadBack(record) == [record EXCEPT !.timestamp = to_datetime(@)]

\* C3: after successful saves by a single process, load_data gives the records
\* it gave before the first save, followed by the saved transactions in call
\* order, each with every field equal to the value it was constructed with.
C3_AppendRoundTrip ==
    (Cardinality(touched) <= 1 /\ Quiet /\ load_data(file0).kind = "list") =>
        LET before == load_data(file0).items
            now == load_data(file)
        IN  /\ now.kind = "list"
            /\ Len(now.items) = Len(before) + Len(saved)
            /\ \A i \in 1..Len(before) : now.items[i] = before[i]
            /\ \A i \in 1..Len(saved) : ReadBack(now.items[Len(before) + i]) = saved[i]

\* One process has saved two transactions with different timestamps on top of
\* a store that held a record.
C3_Witness ==
    /\ Cardinality(touched) = 1
    /\ \A p \in Procs : pc[p] = "idle"
    /\ Len(saved) = 2
    /\ saved[1].timestamp # saved[2].timestamp
    /\ load_data(file0).kind = "list"
    /\ load_data(file0).items # <<>>
    /\ Len(load_data(file).items) = 3

\* What the store holds when every save so far has been written whole.
AfterAppends ==
    [exists |-> TRUE,
     text |-> json_dump(load_data(file0).items
                        \o [i \in 1..Len(saved) |-> model_dump(saved[i])])]

\* C5: whenever no save is under way, in runs where saves do not overlap, the
\* store holds the complete sequence from before or after each append, also
\* after an append whose write failed partway.
C5_StoreNeverPartial ==
    (~overlap /\ \A p \in Procs : pc[p] \in {"idle", "constructed"}) =>
        file = (IF saved = <<>> THEN file0 ELSE AfterAppends)

InStore(t) ==
    LET now == load_data(file)
    IN  now.kind = "list" /\ \E i \in 1..Len(now.items) : now.items[i] = model_dump(t)

\* C10: as long as no process loads the store while another is between its load
\* and the end of its write, every saved transaction is in the store; when two
\* such windows overlap, a saved transaction can be missing from the store.
C10_SingleWriterKeepsAll ==
    (~overlap /\ Quiet) => \A i \in 1..Len(saved) : InStore(saved[i])

\* Two processes loaded before either rewrote the file, both saves returned,
\* and the store holds only one of the two transactions.
C10_Witness ==
    /\ overlap
    /\ \A p \in Procs : pc[p] = "idle" /\ outcome[p] = "saved"
    /\ Len(saved) = 2
    /\ ~InStore(saved[1])
    /\ InStore(saved[2])

-----------------------------------------------------------------------------
(* The dashboard: lines 161-294 *)

\* "All Time" in the year and the month selectbox; no year or month is 0.
AllTime == 0

AllTypes == "All Investment Types"

RECURSIVE SumSeq(_)
SumSeq(s) == IF s = <<>> THEN 0 ELSE Head(s) + SumSeq(Tail(s))

RECURSIVE Concat(_)
Concat(ss) == IF ss = <<>> THEN <<>> ELSE Head(ss) \o Concat(Tail(ss))

\* NaN, the year and the month of a row without a timestamp (NaT); it equals
\* nothing, itself included.
NaN == -1

has_timestamp(row) == "timestamp" \in DOMAIN row

\* Line 169: df['year'].
year_of(row) == IF has_timestamp(row) THEN to_datetime(row.timestamp).year ELSE NaN

\* Line 170: df['month'].
month_of(row) == IF has_timestamp(row) THEN to_datetime(row.timestamp).month ELSE NaN

\* df[column] == value.
equals(x, value) == x # NaN /\ value # NaN /\ x = value

\* Lines 178-179: the years on offer.
year_options(df) == {AllTime} \cup {year_of(df[i]) : i \in 1..Len(df)}

\* Line 184: the months on offer.
month_options == {AllTime} \cup (1..12)

df_selection_elif(df, selected_year, selected_month) ==
    IF selected_year # AllTime
    THEN SelectSeq(df, LAMBDA row : equals(year_of(row), selected_year))
    ELSE IF selected_month # AllTime
    THEN SelectSeq(df, LAMBDA row : equals(month_of(row), selected_month))
    ELSE df

\* Lines 189-193: the time filter.
df_selection(df, selected_year, selected_month) ==
    LET by_year == IF selected_year # AllTime
                   THEN SelectSeq(df, LAMBDA row : equals(year_of(row), selected_year))
                   ELSE df
    IN  IF selected_month # AllTime
        THEN SelectSeq(by_year, LAMBDA row : equals(month_of(row), selected_month))
        ELSE by_year

detail_column(k) == "detail_" \o k

\* Lines 201-203: one investment as a flat record.
inv_copy(inv, transaction_id) ==
    LET base == [type |-> inv.type, amount |-> inv.amount,
                 transaction_id |-> transaction_id]
        details == inv.details
    IN  [c \in DOMAIN base \cup {detail_column(k) : k \in DOMAIN details} |->
            IF c \in DOMAIN base THEN base[c]
            ELSE details[CHOOSE k \in DOMAIN details : detail_column(k) = c]]

\* Lines 196-204: the investments of the selected rows that have allocations,
\* flattened.
temp_invest_list(selection) ==
    Concat([i \in 1..Len(selection) |->
              IF "allocations" \notin DOMAIN selection[i] THEN <<>>
              ELSE [j \in 1..Len(selection[i].allocations.investments) |->
                      inv_copy(selection[i].allocations.investments[j],
                               selection[i].transaction_id)]])

\* The columns pd.DataFrame gives a list of records: every key of any of them.
columns(records) == UNION {DOMAIN records[i] : i \in 1..Len(records)}

\* Line 206: pd.DataFrame(temp_invest_list).fillna('').
invest_df_period(records) ==
    [i \in 1..Len(records) |->
        [c \in columns(records) |-> IF c \in DOMAIN records[i] THEN records[i][c] ELSE ""]]

\* Lines 209-214: the investment types on offer.
type_options(period) == {AllTypes} \cup {period[i].type : i \in 1..Len(period)}

\* Lines 218-220: the investment type filter.
invest_df_display(period, selected_type) ==
    IF selected_type # AllTypes
    THEN SelectSeq(period, LAMBDA r : r.type = selected_type)
    ELSE period

x_axis_by_platform(selected_type) ==
    IF selected_type = AllTypes THEN "type"
    ELSE IF selected_type = "SIP" THEN "detail_platform"
    ELSE IF selected_type = "Hedge" THEN "detail_asset_type"
    ELSE "detail_destination_account"

\* Lines 263-277: the column the breakdown groups by.
x_axis(selected_type) ==
    IF selected_type = AllTypes THEN "type"
    ELSE IF selected_type = "SIP" THEN "detail_fund_name"
    ELSE IF selected_type = "Hedge" THEN "detail_asset_type"
    ELSE "detail_destination_account"

\* df.groupby(column)['amount'].sum(): one (key, total) pair per key.
groupby_sum(display, column) ==
    {<<k, SumSeq([i \in 1..Len(SelectSeq(display, LAMBDA r : r[column] = k)) |->
                    SelectSeq(display, LAMBDA r : r[column] = k)[i].amount])>> :
        k \in {display[i][column] : i \in 1..Len(display)}}

\* Lines 161-294: one run of the dashboard with the widgets at the given values.
dashboard(f, selected_year, selected_month, selected_type) ==
    LET all_transactions == load_data(f)
    IN  IF all_transactions.kind # "list"
        THEN [status |-> IF all_transactions.val = <<>> THEN "NoData" ELSE "Crash",
              all_transactions |-> all_transactions, breakdown |-> {}]
        ELSE IF all_transactions.items = <<>>
        THEN [status |-> "NoData", all_transactions |-> all_transactions,
              breakdown |-> {}]
        ELSE IF \A i \in 1..Len(all_transactions.items) :
                   ~has_timestamp(all_transactions.items[i])
        THEN [status |-> "Crash", all_transactions |-> all_transactions,
              breakdown |-> {}]
        ELSE
        LET df == all_transactions.items
            selection == df_selection(df, selected_year, selected_month)
            period == invest_df_period(temp_invest_list(selection))
            display == invest_df_display(period, selected_type)
        IN  IF selection = <<>>
            THEN [status |-> "NoTransactions", all_transactions |-> all_transactions,
                  breakdown |-> {}]
            ELSE IF \E i \in 1..Len(selection) :
                       {"income_source", "allocations"} \ DOMAIN selection[i] # {}
            THEN [status |-> "Crash", all_transactions |-> all_transactions,
                  breakdown |-> {}]
            ELSE
            LET metrics ==
                  [total_income |->
                     SumSeq([i \in 1..Len(selection) |-> selection[i].income_source.amount]),
                   total_life_expenses |->
                     SumSeq([i \in 1..Len(selection) |-> selection[i].allocations.life_expenses]),
                   total_self_supply |->
                     SumSeq([i \in 1..Len(selection) |-> selection[i].allocations.self_supply]),
                   total_invested_period |->
                     SumSeq([i \in 1..Len(period) |-> period[i].amount])]
            IN  IF display # <<>> /\ x_axis(selected_type) \notin columns(display)
                THEN [status |-> "KeyError", all_transactions |-> all_transactions,
                      metrics |-> metrics, breakdown |-> {}]
                ELSE [status |-> "ok", all_transactions |-> all_transactions,
                      metrics |-> metrics,
                      breakdown |-> IF display = <<>> THEN {}
                                    ELSE groupby_sum(display, x_axis(selected_type))]

\* The investment types the type selectbox offers for a period (lines 209-214).
types_on_offer(f, selected_year, selected_month) ==
    LET all_transactions == load_data(f)
    IN  IF all_transactions.kind # "list" THEN {AllTypes}
        ELSE IF \A i \in 1..Len(all_transactions.items) :
                   ~has_timestamp(all_transactions.items[i])
        THEN {AllTypes}
        ELSE type_options(invest_df_period(temp_invest_list(
                 df_selection(all_transactions.items, selected_year, selected_month))))

years_on_offer(f) ==
    LET all_transactions == load_data(f)
    IN  IF all_transactions.kind # "list" THEN {AllTime}
        ELSE IF \A i \in 1..Len(all_transactions.items) :
                   ~has_timestamp(all_transactions.items[i])
        THEN {AllTime}
        ELSE year_options(all_transactions.items)

-----------------------------------------------------------------------------
(* SpecDash: the dashboard run on a stored file under every filter selection *)

Stored(id, ts, income, life, self, invs) ==
    [transaction_id |-> id, timestamp |-> ts,
     income_source |-> [type |-> "salary", amount |-> income],
     allocations |-> [life_expenses |-> life, self_supply |-> self,
                      investments |-> invs]]

Inv(type, amount, details) == [type |-> type, amount |-> amount, details |-> details]

\* Records as the handler writes them, and two as an older version or another
\* tool could have left them: a SIP and a Hedge investment without the detail
\* the breakdown groups by.
StoredTxns ==
    {Stored(1, 202401, 4 * Scale, Scale, Scale,
            <<Inv("SIP", Scale, [fund_name |-> "VFM", platform |-> "app"]),
              Inv("SIP", Scale, [fund_name |-> "VFM", platform |-> "web"])>>),
     Stored(2, 202402, 6 * Scale, 2 * Scale, Scale,
            <<Inv("SIP", 2 * Scale, [fund_name |-> "DCDS", platform |-> "app"]),
              Inv("Hedge", Scale, [asset_type |-> "Gold", description |-> ""])>>),
     Stored(3, 202501, 3 * Scale, Scale, 0,
            <<Inv("Saving", Scale, [destination_account |-> "bank"]),
              Inv("Emergency Fund", Scale, [destination_account |-> "bank"])>>),
     Stored(4, 202401, 2 * Scale, Scale, 0,
            <<Inv("SIP", Scale, [platform |-> "app"])>>),
     Stored(5, 202502, 2 * Scale, HalfUnit, HalfUnit,
            <<Inv("Hedge", Scale, [description |-> "old"])>>),
     Stored(6, 202402, Scale, Scale, 0, <<>>)}

Injective(s) == \A i, j \in 1..Len(s) : i # j => s[i] # s[j]

DashFiles ==
    {[exists |-> TRUE, text |-> json_dump(s)] :
        s \in {q \in RowSeqs(StoredTxns, MaxTxns) : Injective(q)}}
    \cup
    {[exists |-> FALSE, text |-> <<>>],
     [exists |-> TRUE, text |-> <<>>],
     [exists |-> TRUE, text |-> SubSeq(json_dump(<<OldTxn>>), 1, 2)],
     [exists |-> TRUE, text |-> <<Top([junk |-> 1])>>],
     [exists |-> TRUE, text |-> json_dump(<<[junk |-> 1]>>)]}
    \cup
    {[exists |-> TRUE, text |-> json_dump(<<[junk |-> 1], t>>)] : t \in StoredTxns}

InitDash ==
    /\ input = NotRun
    /\ created = NotRun
    /\ file \in DashFiles
    /\ pc = Idle
    /\ txn = [p \in Procs |-> NotRun]
    /\ all_data = [p \in Procs |-> <<>>]
    /\ outcome = [p \in Procs |-> "none"]
    /\ next_id = 1
    /\ file0 = file
    /\ saved = <<>>
    /\ overlap = FALSE
    /\ failed = FALSE
    /\ touched = {}
    /\ clicked = NotRun
    /\ sel = NotRun
    /\ view = NotRun

\* One script run below line 158, with the three selectboxes at values they offer.
Dashboard ==
    /\ \E y \in years_on_offer(file), m \in month_options :
         \E t \in types_on_offer(file, y, m) :
            /\ sel' = [year |-> y, month |-> m, type |-> t]
            /\ view' = dashboard(file, y, m, t)
    /\ UNCHANGED <<input, created, file, pc, txn, all_data, outcome, next_id,
                   file0, saved, overlap, failed, touched, clicked>>

NextDash == Dashboard

SpecDash == InitDash /\ [][NextDash]_vars

\* The stored records, when the file holds a list of transaction records.
Records == load_data(file).items

Rendered == view # NotRun /\ view.status \notin {"NoData", "Crash"}

RECURSIVE SumFn(_)
SumFn(f) ==
    IF DOMAIN f = {} THEN 0
    ELSE LET x == CHOOSE x \in DOMAIN f : TRUE
         IN  f[x] + SumFn([y \in DOMAIN f \ {x} |-> f[y]])

\* The stored transactions the selected year and month admit, each axis on its own.
PeriodTransactions ==
    {i \in 1..Len(Records) :
        /\ sel.year = AllTime
           \/ ("timestamp" \in DOMAIN Records[i] /\ Records[i].timestamp \div 100 = sel.year)
        /\ sel.month = AllTime
           \/ ("timestamp" \in DOMAIN Records[i] /\ Records[i].timestamp % 100 = sel.month)}

\* C7: the four totals are the sums over exactly the transactions whose timestamp
\* matches the year filter and the month filter, each applied independently, and
\* none of them changes with the investment-type filter; with no transaction in
\* the period no totals are produced.
C7_TotalsOverPeriod ==
    Rendered =>
        IF PeriodTransactions = {}
        THEN view.status = "NoTransactions"
        ELSE /\ view.status \in {"ok", "KeyError"}
             /\ view.metrics.total_income =
                  SumFn([i \in PeriodTransactions |-> Records[i].income_source.amount])
             /\ view.metrics.total_life_expenses =
                  SumFn([i \in PeriodTransactions |-> Records[i].allocations.life_expenses])
             /\ view.metrics.total_self_supply =
                  SumFn([i \in PeriodTransactions |-> Records[i].allocations.self_supply])
             /\ view.metrics.total_invested_period =
                  SumFn([i \in PeriodTransactions |->
                           SumAmounts(Records[i].allocations.investments)])
             /\ \A t \in types_on_offer(file, sel.year, sel.month) :
                  dashboard(file, sel.year, sel.month, t).metrics = view.metrics

\* January 2024 is selected on a store that holds the January record 1 and the
\* February record 2 of that year, with the type filter on SIP: the totals are
\* those of record 1 alone.
C7_Witness ==
    /\ Rendered
    /\ view.status = "ok"
    /\ sel = [year |-> 2024, month |-> 1, type |-> "SIP"]
    /\ \A i \in 1..Len(Records) : "transaction_id" \in DOMAIN Records[i]
    /\ {Records[i].transaction_id : i \in 1..Len(Records)} = {1, 2}
    /\ view.metrics.total_income = 4 * Scale
    /\ view.metrics.total_invested_period = 2 * Scale

\* The investments of the period that the type filter admits, as (transaction,
\* position) pairs.
TypeFiltered ==
    {ij \in UNION {{<<i, j>> : j \in 1..Len(Records[i].allocations.investments)} :
                     i \in PeriodTransactions} :
        \/ sel.type = AllTypes
        \/ Records[ij[1]].allocations.investments[ij[2]].type = sel.type}

InvAt(ij) == Records[ij[1]].allocations.investments[ij[2]]

GroupKey ==
    IF sel.type = "SIP" THEN "fund_name"
    ELSE IF sel.type = "Hedge" THEN "asset_type"
    ELSE "destination_account"

HasKey(ij) == sel.type = AllTypes \/ GroupKey \in DOMAIN InvAt(ij).details

KeyOf(ij) ==
    IF sel.type = AllTypes THEN InvAt(ij).type
    ELSE IF HasKey(ij) THEN InvAt(ij).details[GroupKey]
    ELSE ""

\* C8: when every investment the filters admit carries the key its grouping
\* needs, the breakdown has exactly one entry per distinct key value among them
\* and each entry's total is the sum of the amounts of the records with that key.
C8_OneEntryPerKey ==
    (Rendered /\ \A ij \in TypeFiltered : HasKey(ij)) =>
        /\ view.status \in {"ok", "NoTransactions"}
        /\ {e[1] : e \in view.breakdown} = {KeyOf(ij) : ij \in TypeFiltered}
        /\ Cardinality(view.breakdown) = Cardinality({KeyOf(ij) : ij \in TypeFiltered})
        /\ \A e \in view.breakdown :
             e[2] = SumFn([ij \in {x \in TypeFiltered : KeyOf(x) = e[1]} |->
                             InvAt(ij).amount])

\* The type filter is SIP and the two SIP investments of fund VFM have become
\* one entry of their combined amount, next to the entry of another fund.
C8_Witness ==
    /\ Rendered
    /\ view.status = "ok"
    /\ sel.type = "SIP"
    /\ \A ij \in TypeFiltered : HasKey(ij)
    /\ Cardinality(TypeFiltered) = 3
    /\ view.breakdown = {<<"VFM", 2 * Scale>>, <<"DCDS", 2 * Scale>>}

\* C9: when an investment the filters admit lacks the key the grouping needs,
\* the breakdown is still produced and counts that record's amount under the
\* empty bucket.
C9_MissingKeyBucket ==
    (Rendered /\ \E ij \in TypeFiltered : ~HasKey(ij)) =>
        /\ view.status = "ok"
        /\ \E e \in view.breakdown :
             /\ e[1] = ""
             /\ e[2] = SumFn([ij \in {x \in TypeFiltered : KeyOf(x) = ""} |->
                               InvAt(ij).amount])

IsTransactionRecord(x) ==
    DOMAIN x = {"transaction_id", "timestamp", "income_source", "allocations"}

Malformed(f) ==
    \/ ~f.exists
    \/ json_load(f.text).kind # "list"
    \/ \E i \in 1..Len(json_load(f.text).items) :
         ~IsTransactionRecord(json_load(f.text).items[i])

\* C4: on a store that does not exist or is malformed (not parseable, or not a
\* list of transaction records) load_data returns the empty list.
C4_MalformedLoadsEmpty ==
    (view # NotRun /\ Malformed(file)) => view.all_transactions = PyList(<<>>)

====
